---------------------------- MODULE Spec2Model ----------------------------
(***************************************************************************)
(* Hand-drawn KaTeX geometry scripts (anthraxora-ui/fontssss).             *)
(*                                                                         *)
(* The repository holds several generations of one script:                 *)
(*   "hack"  src/katex-geometry-hack.js          (v1.0, perfect-freehand)  *)
(*   "v21"   src/katex-geometry-hack-v2.1.js     (rough.js + ink hybrid)   *)
(*   "rough" src/unnamed/part_000                (rough.js bridge)         *)
(*   "v32"   src/unnamed/part_001                (v3.2)                    *)
(*   "v40"   src/katex-handwriting-geometry.js   (v4.0, lines 1-1065)      *)
(*                                                                         *)
(* Numbers.  JavaScript doubles are modelled as integers in thousandths    *)
(* (1.4 is 1400).  Math.random() is a shared source: the variable rng is   *)
(* its position in the cyclic sequence RandVals of draws in hundredths.    *)
(* Every variance in the sources is a multiple of 0.05, so                 *)
(* rand(base, variance) is exact on this grid.                             *)
(***************************************************************************)
EXTENDS Integers, Sequences, FiniteSets, TLC

VARIABLES
    lib,        \* which script is loaded on the page
    config,     \* the settings table of that script (BASE_SETTINGS / CONFIG / MASTER_SETTINGS)
    rng,        \* state of the shared random source Math.random
    settings,   \* value returned to the caller by the latest direct getRandomizedSettings / getSettings call
    runs,       \* the draw calls made directly with that settings bundle, oldest first
    rendered,   \* the document as KaTeX rendered it
    dom,        \* the document now
    dependenciesLoaded, \* module flag of v3.2 / v4.0: perfect-freehand and rough.js are imported
    modules,    \* the module variables getStroke and generator of v3.2 / v4.0
    awaiting,   \* the API calls suspended on the imports of initDependencies
    calls,      \* the API calls that have completed, oldest first
    returned    \* what the latest completed API call returned

page == <<rendered, dom, dependenciesLoaded, modules, awaiting, calls, returned>>
vars == <<lib, config, rng, settings, runs, page>>

\* ------------------------------------------------------------------------
\* Bounds of the model
\* ------------------------------------------------------------------------
MaxTweaked == 1     \* how many entries of the settings table differ from the source defaults

\* ------------------------------------------------------------------------
\* Generic helpers
\* ------------------------------------------------------------------------
Min2(a, b) == IF a <= b THEN a ELSE b
Max2(a, b) == IF a >= b THEN a ELSE b

None == [none |-> TRUE]

\* no document is loaded: the functions of the script are exercised directly
NoPage ==
    /\ rendered = <<>>
    /\ dom = <<>>
    /\ dependenciesLoaded = FALSE
    /\ modules = None
    /\ awaiting = <<>>
    /\ calls = <<>>
    /\ returned = None

\* Math.random(): the draws the shared source hands out, in hundredths, [0,1).
RandVals == <<0, 99, 50, 25, 75, 10, 90>>
NRand == Len(RandVals)

\* k-th draw (k = 1, 2, ...) taken from state r of the source
Draw(r, k) == RandVals[((r + k - 1) % NRand) + 1]
\* state of the source after n draws
Advance(r, n) == (r + n) % NRand

\* const rand = (base, variance) => base + (Math.random() - 0.5) * 2 * variance;
rand(base, variance, draw) == base + ((draw - 50) * 2 * variance) \div 100

\* const clamp = (val, min, max) => Math.max(min, Math.min(max, val));
clampNoFloor(val, min, max) == Min2(max, val)
clamp(val, min, max) == Max2(min, Min2(max, val))


\* ------------------------------------------------------------------------
\* Settings tables.  A table is a function section -> (field -> value); a
\* field a section does not hold is undefined in JavaScript.
\* ------------------------------------------------------------------------
Libs == {"hack", "v21", "v32", "v40"}

\* src/katex-geometry-hack.js  BASE_SETTINGS
HackDefaults ==
    [BASE_SETTINGS |->
        [size |-> 1400, thinning |-> -500, smoothing |-> 700, streamline |-> 600,
         wobble |-> 500, wobbleScale |-> 50000, pressureMin |-> 400, pressureVar |-> 300,
         minPoints |-> 4, maxPoints |-> 25, pointSpacing |-> 3000]]

\* src/katex-geometry-hack-v2.1.js  BASE_SETTINGS
V21Defaults ==
    [BASE_SETTINGS |->
        [size |-> 3000, thinning |-> 300, smoothing |-> 500, streamline |-> 500,
         roughness |-> 1500, bowing |-> 1000]]

\* src/unnamed/part_001  CONFIG (copied from MASTER_SETTINGS) and MASTER_SETTINGS.line
V32Defaults ==
    [CONFIG |->
        [size |-> 3000, thinning |-> 250, smoothing |-> 400, streamline |-> 100,
         roughness |-> 3000, bowing |-> 1400,
         sizeVariance |-> 1000, thinningVariance |-> 200,
         roughnessVariance |-> 600, bowingVariance |-> 500],
     line |-> [waveAmount |-> 15, wobbleAmount |-> 20, waveFrequency |-> 3,
               minSteps |-> 15, stepDivisor |-> 2500]]

\* src/katex-handwriting-geometry.js  MASTER_SETTINGS (the sections getSettings,
\* interpolateLine and the stroke options read)
V40Defaults ==
    [global |->
        [strokeSize |-> 3000, thinning |-> 250, smoothing |-> 400, streamline |-> 400,
         roughness |-> 2000, bowing |-> 1400],
     variance |-> [size |-> 1000, thinning |-> 200, roughness |-> 600, bowing |-> 500],
     line |-> [waveAmount |-> 15, wobbleAmount |-> 20, waveFrequency |-> 3,
               minSteps |-> 15, stepDivisor |-> 2500],
     delimiter |-> [roughness |-> 2000, bowing |-> 1400],
     hline |-> [roughness |-> 2000, bowing |-> 1400, strokeSize |-> 3000],
     sqrt |-> [roughness |-> 3500, bowing |-> 3000, thinning |-> 400,
               smoothing |-> 200, streamline |-> 200]]

\* src/unnamed/part_000  BASE_SETTINGS of the rough.js bridge
RoughDefaults ==
    [BASE_SETTINGS |->
        [size |-> 4000, thinning |-> 400, smoothing |-> 500, streamline |-> 500,
         roughness |-> 1800, bowing |-> 1000]]

Defaults(l) ==
    CASE l = "hack" -> HackDefaults
      [] l = "v21"  -> V21Defaults
      [] l = "rough" -> RoughDefaults
      [] l = "v32"  -> V32Defaults
      [] l = "v40"  -> V40Defaults

\* o[k] = v, adding the field when the object lacks it
Put(o, k, v) == [x \in (DOMAIN o) \cup {k} |-> IF x = k THEN v ELSE o[x]]

\* JavaScript truthiness of o.k for a numeric field: undefined and 0 are falsy
Truthy(o, k) == k \in DOMAIN o /\ o[k] # 0

\* the entries among keys (pairs <<section, field>>) in which table c differs
\* from the defaults d
Tweaked(c, d, keys) ==
    {k \in keys :
        \/ (k[2] \in DOMAIN c[k[1]]) # (k[2] \in DOMAIN d[k[1]])
        \/ (k[2] \in DOMAIN c[k[1]] /\ c[k[1]][k[2]] # d[k[1]][k[2]])}

\* ------------------------------------------------------------------------
\* Style Parameter Model
\* ------------------------------------------------------------------------

\* src/katex-geometry-hack.js  getRandomizedSettings
getRandomizedSettingsHack(c, r) ==
    LET B == c.BASE_SETTINGS IN
    [size         |-> clamp(rand(B.size, 300, Draw(r, 1)), 800, 2000),
     thinning     |-> clamp(rand(B.thinning, 150, Draw(r, 2)), -800, 200),
     smoothing    |-> clamp(rand(B.smoothing, 150, Draw(r, 3)), 300, 1000),
     streamline   |-> clamp(rand(B.streamline, 150, Draw(r, 4)), 200, 900),
     wobble       |-> clamp(rand(B.wobble, 200, Draw(r, 5)), 100, 1000),
     wobbleScale  |-> clamp(rand(B.wobbleScale, 15000, Draw(r, 6)), 20000, 80000),
     pressureMin  |-> clamp(rand(B.pressureMin, 100, Draw(r, 7)), 200, 600),
     pressureVar  |-> clamp(rand(B.pressureVar, 100, Draw(r, 8)), 100, 500),
     pointSpacing |-> clamp(rand(B.pointSpacing, 1000, Draw(r, 9)), 1500, 5000),
     phaseOffset  |-> Draw(r, 10),                  \* hundredths of a full turn
     pressureCurve |-> (Draw(r, 11) * 3) \div 100,  \* Math.floor(Math.random() * 3)
     minPoints    |-> B.minPoints,
     maxPoints    |-> B.maxPoints,
     category     |-> "",
     draws        |-> 11]

\* src/katex-geometry-hack-v2.1.js  getRandomizedSettings
getRandomizedSettingsV21(c, r) ==
    LET B == c.BASE_SETTINGS IN
    [size       |-> clamp(rand(B.size, 1000, Draw(r, 1)), 1500, 5000),
     thinning   |-> clamp(rand(B.thinning, 100, Draw(r, 2)), -300, 500),
     smoothing  |-> 500,
     streamline |-> 500,
     roughness  |-> clamp(rand(B.roughness, 400, Draw(r, 3)), 500, 2500),
     bowing     |-> clamp(rand(B.bowing, 400, Draw(r, 4)), 300, 1800),
     seed       |-> Draw(r, 5) * 10,                \* Math.floor(Math.random() * 1000)
     category   |-> "",
     draws      |-> 5]

\* src/unnamed/part_001  getSettings
getSettingsV32(c, r) ==
    LET C == c.CONFIG IN
    [size       |-> clamp(rand(C.size, C.sizeVariance, Draw(r, 1)), 1500, 5000),
     thinning   |-> clamp(rand(C.thinning, C.thinningVariance, Draw(r, 2)), -100, 500),
     smoothing  |-> C.smoothing,
     streamline |-> C.streamline,
     roughness  |-> clamp(rand(C.roughness, C.roughnessVariance, Draw(r, 3)), 1000, 3500),
     bowing     |-> clamp(rand(C.bowing, C.bowingVariance, Draw(r, 4)), 500, 2500),
     seed       |-> Draw(r, 5) * 100,               \* Math.floor(Math.random() * 10000)
     category   |-> "",
     draws      |-> 5]

\* src/katex-handwriting-geometry.js  getSettings(category = null); category ""
\* stands for null.  `a || b` evaluates b, and so draws, only when a is falsy.
getSettingsV40(c, r, category) ==
    LET g   == c.global
        v   == c.variance
        cat == IF category = "" THEN [x \in {} |-> 0] ELSE c[category]
        n1  == IF Truthy(cat, "strokeSize") THEN 0 ELSE 1
        n2  == n1 + (IF Truthy(cat, "thinning") THEN 0 ELSE 1)
        n3  == n2 + (IF Truthy(cat, "roughness") THEN 0 ELSE 1)
        n4  == n3 + (IF Truthy(cat, "bowing") THEN 0 ELSE 1)
    IN
    [size       |-> IF Truthy(cat, "strokeSize") THEN cat.strokeSize
                    ELSE clamp(rand(g.strokeSize, v.size, Draw(r, n1)), 1000, 6000),
     thinning   |-> IF Truthy(cat, "thinning") THEN cat.thinning
                    ELSE clamp(rand(g.thinning, v.thinning, Draw(r, n2)), -100, 600),
     smoothing  |-> IF Truthy(cat, "smoothing") THEN cat.smoothing ELSE g.smoothing,
     streamline |-> IF Truthy(cat, "streamline") THEN cat.streamline ELSE g.streamline,
     roughness  |-> IF Truthy(cat, "roughness") THEN cat.roughness
                    ELSE clamp(rand(g.roughness, v.roughness, Draw(r, n3)), 500, 4000),
     bowing     |-> IF Truthy(cat, "bowing") THEN cat.bowing
                    ELSE clamp(rand(g.bowing, v.bowing, Draw(r, n4)), 300, 3000),
     seed       |-> Draw(r, n4 + 1) * 100,          \* Math.floor(Math.random() * 10000)
     category   |-> category,
     draws      |-> n4 + 1]

\* ------------------------------------------------------------------------
\* JavaScript numbers: a finite value, NaN, +Infinity or -Infinity
\* ------------------------------------------------------------------------
Fin(v) == [k |-> "fin", v |-> v]
NaN    == [k |-> "nan", v |-> 0]
PosInf == [k |-> "inf", v |-> 0]
NegInf == [k |-> "ninf", v |-> 0]

JsNeg(a) ==
    CASE a.k = "fin"  -> Fin(0 - a.v)
      [] a.k = "inf"  -> NegInf
      [] a.k = "ninf" -> PosInf
      [] OTHER        -> NaN

\* a + b
JsAdd(a, b) ==
    CASE a.k = "nan" \/ b.k = "nan"      -> NaN
      [] a.k = "fin" /\ b.k = "fin"      -> Fin(a.v + b.v)
      [] a.k = "fin"                     -> b
      [] b.k = "fin"                     -> a
      [] a.k = b.k                       -> a
      [] OTHER                           -> NaN     \* Infinity - Infinity

\* a - b
JsSub(a, b) == JsAdd(a, JsNeg(b))

\* a * t for the fraction t = i / n, 0 <= i <= n, n > 0 (Infinity * 0 is NaN);
\* a finite value is scaled by `unit` on the way (pixels to thousandths)
JsScale(a, i, n, unit) ==
    CASE a.k = "nan" -> NaN
      [] a.k = "fin" -> Fin((a.v * unit * i) \div n)
      [] i = 0       -> NaN
      [] OTHER       -> a

\* Math.hypot(dx, dy) as the square of the result: any infinite argument gives
\* +Infinity, else any NaN gives NaN
JsHypot2(dx, dy) ==
    CASE dx.k \in {"inf", "ninf"} \/ dy.k \in {"inf", "ninf"} -> PosInf
      [] dx.k = "nan" \/ dy.k = "nan"                          -> NaN
      [] OTHER -> Fin(dx.v * dx.v + dy.v * dy.v)

\* floor(sqrt(x)) by bisection on lo <= sqrt(x) < hi
RECURSIVE IsqrtIn(_, _, _)
IsqrtIn(x, lo, hi) ==
    IF hi - lo <= 1 THEN lo
    ELSE LET mid == (lo + hi) \div 2 IN
         IF mid * mid <= x THEN IsqrtIn(x, mid, hi) ELSE IsqrtIn(x, lo, mid)

Isqrt(x) == IsqrtIn(x, 0, 46341)

\* Math.ceil(Math.sqrt(d2) / q) for q = q100 / 100 > 0: the least n with
\* (n * q100)^2 >= 10000 * d2, exact in integers
CeilSqrtDiv(d2, q100) ==
    LET r == Isqrt(10000 * d2)                       \* floor(100 * sqrt(d2))
        exact == r * r = 10000 * d2
        n == r \div q100
    IN  IF exact /\ n * q100 = r THEN n ELSE n + 1

\* Math.floor(Math.sqrt(d2) / q) for q = q100 / 100 > 0
FloorSqrtDiv(d2, q100) == Isqrt(10000 * d2) \div q100

\* 1000 * Math.sin(Math.PI * a / d) for a >= 0, d > 0: the angle is rounded
\* down to a multiple of PI/200 and the sine taken by Bhaskara's rational
\* formula 16x(1-x) / (5 - 4x(1-x)), exact at 0, PI/2 and PI
\* (absolute error below 0.02).
Sin1000(a, d) ==
    LET idx  == ((a * 200) \div d) % 400
        half == idx % 200
        q    == half * (200 - half)
        b    == (16000 * q) \div (200000 - 4 * q)
    IN  IF idx < 200 THEN b ELSE 0 - b

\* ------------------------------------------------------------------------
\* Point Sampler
\* A segment is [p0 |-> <<x, y>>, p1 |-> <<x, y>>] of JavaScript numbers in
\* pixels; a sample is <<x, y, pressure>>, x and y JavaScript numbers in
\* thousandths of a pixel, pressure in thousandths.
\* A sampler returns [ret |-> TRUE, points |-> ..., draws |-> n] or, when its
\* loop never ends, [ret |-> FALSE].
\* ------------------------------------------------------------------------
Dx(seg) == JsSub(seg.p1[1], seg.p0[1])
Dy(seg) == JsSub(seg.p1[2], seg.p0[2])
Dist2(seg) == JsHypot2(Dx(seg), Dy(seg))

\* the loop `for (let i = 0; i <= steps; i++)`: no iteration when steps is NaN,
\* no end when steps is +Infinity
Returned(pts, n) == [ret |-> TRUE, points |-> pts, draws |-> n]
NeverReturns == [ret |-> FALSE]

\* unit normal (-dy, dx) / len in thousandths, len = hypot || 1
PerpX1000(seg, len100) == ((0 - Dy(seg).v) * 100000) \div len100
PerpY1000(seg, len100) == (Dx(seg).v * 100000) \div len100

\* x = p0 + d * t + offset, for finite or non-finite p0 and d
Coord(p0, d, i, n, off) ==
    JsAdd(JsAdd(JsScale(p0, 1, 1, 1000), JsScale(d, i, n, 1000)), Fin(off))

\* a sampled point [x, y, pressure], each a JavaScript number in thousandths
Point(x, y, pressure) == <<x, y, pressure>>
Pressure(pt) == pt[3]

\* ---- src/katex-geometry-hack.js (v1.0) ---------------------------------

\* numPoints = Math.max(minPoints, Math.min(maxPoints, Math.ceil(length / pointSpacing)))
numPoints(seg, s) ==
    LET d2 == Dist2(seg) IN
    CASE d2.k = "nan" -> NaN                         \* Math.min / Math.max of NaN
      [] d2.k = "inf" -> Fin(Max2(s.minPoints, s.maxPoints))
      [] OTHER -> Fin(Max2(s.minPoints,
                           Min2(s.maxPoints, CeilSqrtDiv(d2.v, s.pointSpacing \div 10))))

\* <<Math.cos(angle), Math.sin(angle)>> in thousandths for
\* angle = Math.atan2(dy, dx) + Math.PI / 2; atan2(0, 0) is 0
wobbleNormal(seg) ==
    LET dx   == Dx(seg)
        dy   == Dy(seg)
        sg(a) == IF a.k = "inf" THEN 1 ELSE -1
        ix   == dx.k \in {"inf", "ninf"}
        iy   == dy.k \in {"inf", "ninf"}
        dist == Isqrt(10000 * (dx.v * dx.v + dy.v * dy.v))
        u    == CASE ix /\ iy -> <<707 * sg(dx), 707 * sg(dy)>>
                  [] ix       -> <<1000 * sg(dx), 0>>
                  [] iy       -> <<0, 1000 * sg(dy)>>
                  [] dist = 0 -> <<1000, 0>>
                  [] OTHER    -> <<(dx.v * 100000) \div dist, (dy.v * 100000) \div dist>>
    IN  <<0 - u[2], u[1]>>

handLine(seg, s, r) ==
    LET np == numPoints(seg, s) IN
    IF np.k = "nan" THEN Returned(<<>>, 0)
    ELSE
      LET n    == np.v
          d2   == Dist2(seg)
          wobbleAmount ==                             \* Math.min(wobble, length / wobbleScale)
              IF d2.k = "fin"
              THEN Min2(s.wobble, (Isqrt(10000 * d2.v) * 10000) \div s.wobbleScale)
              ELSE s.wobble
          nrm  == wobbleNormal(seg)
          pt(i) ==
              LET w    == (Sin1000(50 * i + s.phaseOffset * n, 50 * n) * wobbleAmount
                              * (Draw(r, i + 1) - 50)) \div 50000
                  sn   == CASE s.pressureCurve = 1 -> Sin1000(8 * i, 10 * n)
                            [] s.pressureCurve = 2 -> Sin1000(9 * (5 * i + n), 50 * n)
                            [] OTHER               -> Sin1000(i, n)
              IN  Point(Coord(seg.p0[1], Dx(seg), i, n, (nrm[1] * w) \div 1000),
                        Coord(seg.p0[2], Dy(seg), i, n, (nrm[2] * w) \div 1000),
                        Fin(s.pressureMin + (s.pressureVar * sn) \div 1000))
      IN  IF n = 0
          THEN Returned(<<Point(NaN, NaN, NaN)>>, 1)  \* t = 0 / 0
          ELSE Returned([i \in 1 .. (n + 1) |-> pt(i - 1)], n + 1)

\* ---- src/katex-handwriting-geometry.js (v4.0); src/unnamed/part_001 (v3.2)
\* holds the same function ------------------------------------------------

\* a variant of stepsV40 without the Math.max(L.minSteps, ...) floor
stepsV40NoFloor(seg, L) ==
    LET d2 == Dist2(seg) IN
    CASE d2.k = "nan" -> NaN
      [] d2.k = "inf" -> PosInf
      [] OTHER -> Fin(CeilSqrtDiv(d2.v, L.stepDivisor \div 10))

\* a variant of stepsV40 that rounds distance / L.stepDivisor down
stepsV40Floor(seg, L) ==
    LET d2 == Dist2(seg) IN
    CASE d2.k = "nan" -> NaN
      [] d2.k = "inf" -> PosInf
      [] OTHER -> Fin(Max2(L.minSteps, FloorSqrtDiv(d2.v, L.stepDivisor \div 10)))

\* steps = Math.max(L.minSteps, Math.ceil(distance / L.stepDivisor))
stepsV40(seg, L) ==
    LET d2 == Dist2(seg) IN
    CASE d2.k = "nan" -> NaN                         \* Math.max(n, NaN) is NaN
      [] d2.k = "inf" -> PosInf
      [] OTHER -> Fin(Max2(L.minSteps, CeilSqrtDiv(d2.v, L.stepDivisor \div 10)))

interpolateLineV40(seg, L, r) ==
    LET steps == stepsV40(seg, L) IN
    CASE steps.k = "nan" -> Returned(<<>>, 0)
      [] steps.k = "inf" -> NeverReturns
      [] OTHER ->
        LET n      == steps.v
            dist   == Isqrt(10000 * Dist2(seg).v)     \* hundredths of a pixel
            len    == IF dist = 0 THEN 100 ELSE dist
            pt(i)  ==
                LET wave   == (Sin1000(i * L.waveFrequency, n) * dist * L.waveAmount) \div 100000
                    wobble == ((Draw(r, 2 * i + 1) - 50) * dist * L.wobbleAmount) \div 10000
                IN  Point(Coord(seg.p0[1], Dx(seg), i, n,
                                (PerpX1000(seg, len) * (wave + wobble)) \div 1000),
                          Coord(seg.p0[2], Dy(seg), i, n,
                                (PerpY1000(seg, len) * (wave + wobble)) \div 1000),
                          Fin(250 + (Sin1000(i, n) * 450) \div 1000
                                  + (Draw(r, 2 * i + 2) * 150) \div 100))
        IN  IF n = 0
            THEN Returned(<<Point(NaN, NaN, NaN)>>, 2)    \* t = 0 / 0
            ELSE Returned([i \in 1 .. (n + 1) |-> pt(i - 1)], 2 * (n + 1))

\* ---- src/katex-geometry-hack-v2.1.js -----------------------------------

\* steps = Math.max(segments, Math.ceil(dist / 3)), segments = 8
stepsV21(seg) ==
    LET d2 == Dist2(seg) IN
    CASE d2.k = "nan" -> NaN
      [] d2.k = "inf" -> PosInf
      [] OTHER -> Fin(Max2(8, CeilSqrtDiv(d2.v, 300)))

interpolateLineV21(seg, r) ==
    LET steps == stepsV21(seg) IN
    CASE steps.k = "nan" -> Returned(<<>>, 0)
      [] steps.k = "inf" -> NeverReturns
      [] OTHER ->
        LET n == steps.v
            pt(i) == Point(Coord(seg.p0[1], Dx(seg), i, n, 0),
                           Coord(seg.p0[2], Dy(seg), i, n, 0),
                           Fin(400 + (Sin1000(i, n) * 300) \div 1000
                                   + (Draw(r, i + 1) * 100) \div 100))
        IN  Returned([i \in 1 .. (n + 1) |-> pt(i - 1)], n + 1)

\* ---- src/unnamed/part_000 (rough.js bridge) ----------------------------

\* steps = Math.max(segments, dist / 2), segments = 5, in 200ths: not rounded
stepsRough(seg) ==
    LET d2 == Dist2(seg) IN
    CASE d2.k = "nan" -> NaN
      [] d2.k = "inf" -> PosInf
      [] OTHER -> Fin(Max2(1000, Isqrt(10000 * d2.v)))

interpolateLineRough(seg, r) ==
    LET steps == stepsRough(seg) IN
    CASE steps.k = "nan" -> Returned(<<>>, 0)
      [] steps.k = "inf" -> NeverReturns
      [] OTHER ->
        LET last == steps.v \div 200                  \* the largest i <= steps
            pt(i) == Point(JsAdd(JsScale(seg.p0[1], 1, 1, 1000),
                                 JsScale(Dx(seg), 200 * i, steps.v, 1000)),
                           JsAdd(JsScale(seg.p0[2], 1, 1, 1000),
                                 JsScale(Dy(seg), 200 * i, steps.v, 1000)),
                           Fin(Draw(r, i + 1) * 10))  \* Math.random()
        IN  Returned([i \in 1 .. (last + 1) |-> pt(i - 1)], last + 1)

\* ---- the bridge from rough.js drawables to ink, all four later scripts --

interpolateLine(l, seg, c, r) ==
    CASE l \in {"v40", "v32"} -> interpolateLineV40(seg, c.line, r)
      [] l = "v21"            -> interpolateLineV21(seg, r)
      [] l = "rough"          -> interpolateLineRough(seg, r)

\* steps and pressure = base + Math.sin(t * Math.PI) * amp of interpolateBezier
BezierSteps(l) == CASE l \in {"v40", "v32"} -> 18 [] l = "v21" -> 12 [] l = "rough" -> 10
BezierPressure(l) ==
    CASE l \in {"v40", "v32"} -> <<350, 400>>
      [] l = "v21"            -> <<400, 400>>
      [] l = "rough"          -> <<500, 500>>

\* mt^3 a + 3 mt^2 t b + 3 mt t^2 c + t^3 d at t = i / n
Cubic(a, b, c, d, i, n) ==
    LET m == n - i
        q == n * n * n
    IN  JsAdd(JsAdd(JsScale(a, m * m * m, q, 1000), JsScale(b, 3 * m * m * i, q, 1000)),
              JsAdd(JsScale(c, 3 * m * i * i, q, 1000), JsScale(d, i * i * i, q, 1000)))

interpolateBezier(l, p0, p1, p2, p3) ==
    LET n == BezierSteps(l)
        pt(i) == Point(Cubic(p0[1], p1[1], p2[1], p3[1], i, n),
                       Cubic(p0[2], p1[2], p2[2], p3[2], i, n),
                       Fin(BezierPressure(l)[1]
                             + (Sin1000(i, n) * BezierPressure(l)[2]) \div 1000))
    IN  [i \in 1 .. (n + 1) |-> pt(i - 1)]

\* perfect-freehand's getStroke(points, options), imported by every script:
\* the outline polygon of the stroke, here only its number of vertices; the
\* library returns a dot or capsule outline for one or two points and an
\* empty outline for no point
getStroke(points) == IF points = <<>> THEN 0 ELSE 2 * Len(points) + 2

\* one callback of set.ops.forEach in drawRoughShape; acc holds the points,
\* currentPos, the random draws taken, the number of samples the line sampler
\* returned and whether control came back
applyOp(l, c, r, acc, op) ==
    CASE ~acc.ret -> acc
      [] op.op = "move" ->
             [acc EXCEPT !.cur = <<op.data[1], op.data[2]>>,
                         !.points = Append(@, Point(JsScale(op.data[1], 1, 1, 1000),
                                                    JsScale(op.data[2], 1, 1, 1000),
                                                    Fin(500)))]
      [] op.op = "lineTo" ->
             LET nextPos == <<op.data[1], op.data[2]>>
                 res == interpolateLine(l, [p0 |-> acc.cur, p1 |-> nextPos], c,
                                        Advance(r, acc.draws))
             IN  IF ~res.ret THEN [acc EXCEPT !.ret = FALSE]
                 ELSE [acc EXCEPT !.cur = nextPos,
                                  !.points = @ \o res.points,
                                  !.draws = @ + res.draws,
                                  !.samples = @ + Len(res.points)]
      [] op.op = "bcurveTo" ->
             LET endPos == <<op.data[5], op.data[6]>> IN
             [acc EXCEPT !.cur = endPos,
                         !.points = @ \o interpolateBezier(l, acc.cur,
                                            <<op.data[1], op.data[2]>>,
                                            <<op.data[3], op.data[4]>>, endPos)]
      [] OTHER -> acc

\* set.ops.forEach(...) from op k on
RECURSIVE collectOps(_, _, _, _, _, _)
collectOps(l, c, r, ops, k, acc) ==
    IF k > Len(ops) THEN acc
    ELSE collectOps(l, c, r, ops, k + 1, applyOp(l, c, r, acc, ops[k]))

\* the record of one draw call: what it was given, whether it returned, the
\* points handed to the outliner stage, how many of them a line sampler
\* produced, whether getStroke was invoked and how many path elements were
\* appended to the svg
Run(kind, input, ret, points, samples, draws, outlined, paths) ==
    [kind |-> kind, input |-> input, ret |-> ret, points |-> points,
     samples |-> samples, draws |-> draws, outlined |-> outlined, paths |-> paths]

\* the tail of drawRoughShape's callback for one op set: the points collected
\* go to getStroke when there are more than one, and a path is appended when the
\* outline is not empty (part_000 appends a path for an empty outline too)
strokeSet(l, ops, acc) ==
    Run("shape", ops, acc.ret, acc.points, acc.samples, acc.draws,
        acc.ret /\ Len(acc.points) > 1,
        IF acc.ret /\ Len(acc.points) > 1 /\ (l = "rough" \/ getStroke(acc.points) > 0)
        THEN 1 ELSE 0)

\* drawRoughShape(svg, drawable, color, settings) for a drawable of one op set
drawRoughShape(l, c, r, ops) ==
    strokeSet(l, ops,
        collectOps(l, c, r, ops, 1,
            [ret |-> TRUE, points |-> <<>>, cur |-> <<Fin(0), Fin(0)>>,
             draws |-> 0, samples |-> 0]))

\* drawPoints(svg, points, color, settings) of v3.2 and v4.0
drawPoints(points) ==
    Run("points", points, TRUE, points, 0, 0, ~(Len(points) < 2),
        IF ~(Len(points) < 2) /\ getStroke(points) > 0 THEN 1 ELSE 0)

\* the path drawPath appends for the stroke handLine returned
strokePath(seg, res) ==
    Run("line", seg, TRUE, res.points, Len(res.points), res.draws, TRUE, 1)

\* drawPath(svg, handLine(x1, y1, x2, y2, settings), settings, color) of v1.0
drawPath(seg, s, r) == strokePath(seg, handLine(seg, s, r))

\* ------------------------------------------------------------------------
\* Specification SpecStyle: the settings table is edited (the tables are
\* exported, or marked "TWEAK HERE" in the source) and settings are generated.
\* ------------------------------------------------------------------------
StyleFields == {"strokeSize", "thinning", "roughness", "bowing"}
Categories == {"delimiter", "sqrt"}

\* the entries of the table an integrator edits
StyleKeys(l) ==
    CASE l = "hack" -> {"BASE_SETTINGS"} \X
                         {"size", "thinning", "smoothing", "streamline", "wobble",
                          "wobbleScale", "pressureMin", "pressureVar", "pointSpacing"}
      [] l = "v21"  -> {"BASE_SETTINGS"} \X {"size", "thinning", "roughness", "bowing"}
      [] l = "v32"  -> {"CONFIG"} \X
                         {"size", "thinning", "roughness", "bowing", "sizeVariance",
                          "thinningVariance", "roughnessVariance", "bowingVariance"}
      [] l = "v40"  -> ({"global"} \X StyleFields)
                         \cup ({"variance"} \X {"size", "thinning", "roughness", "bowing"})
                         \cup (Categories \X StyleFields)

\* values written into it: far below every range (a negative variance), zero,
\* far above every range
StyleVals == {-1000000, 0, 1000000}

\* a draw call whose sampling loop never ends keeps the page's only thread
Stalled == runs # <<>> /\ ~runs[Len(runs)].ret

StyleInit ==
    /\ lib \in Libs
    /\ config = Defaults(lib)
    /\ rng \in 0 .. (NRand - 1)
    /\ settings = None
    /\ runs = <<>>
    /\ NoPage

Tweak(s, f, v) ==
    /\ <<s, f>> \in StyleKeys(lib)
    /\ LET c == [config EXCEPT ![s] = Put(@, f, v)] IN
        /\ c # config
        /\ Cardinality(Tweaked(c, Defaults(lib), StyleKeys(lib))) <= MaxTweaked
        /\ config' = c
    /\ settings' = None
    /\ UNCHANGED <<lib, rng, runs, page>>

GetRandomizedSettingsHack ==
    /\ lib = "hack"
    /\ ~Stalled
    /\ settings' = getRandomizedSettingsHack(config, rng)
    /\ rng' = Advance(rng, settings'.draws)
    /\ runs' = <<>>
    /\ UNCHANGED <<lib, config, page>>

GetRandomizedSettingsV21 ==
    /\ lib = "v21"
    /\ ~Stalled
    /\ settings' = getRandomizedSettingsV21(config, rng)
    /\ rng' = Advance(rng, settings'.draws)
    /\ runs' = <<>>
    /\ UNCHANGED <<lib, config, page>>

GetSettingsV32 ==
    /\ lib = "v32"
    /\ ~Stalled
    /\ settings' = getSettingsV32(config, rng)
    /\ rng' = Advance(rng, settings'.draws)
    /\ runs' = <<>>
    /\ UNCHANGED <<lib, config, page>>

GetSettingsV40(category) ==
    /\ lib = "v40"
    /\ ~Stalled
    /\ settings' = getSettingsV40(config, rng, category)
    /\ rng' = Advance(rng, settings'.draws)
    /\ runs' = <<>>
    /\ UNCHANGED <<lib, config, page>>

StyleNext ==
    \/ \E k \in StyleKeys(lib), v \in StyleVals : Tweak(k[1], k[2], v)
    \/ GetRandomizedSettingsHack
    \/ GetRandomizedSettingsV21
    \/ GetSettingsV32
    \/ \E category \in {""} \cup Categories : GetSettingsV40(category)

SpecStyle == StyleInit /\ [][StyleNext]_vars

\* the [min, max] pair written in each clamp call, per script
ClampRange(l) ==
    CASE l = "hack" ->
            [size |-> <<800, 2000>>, thinning |-> <<-800, 200>>,
             smoothing |-> <<300, 1000>>, streamline |-> <<200, 900>>,
             wobble |-> <<100, 1000>>, wobbleScale |-> <<20000, 80000>>,
             pressureMin |-> <<200, 600>>, pressureVar |-> <<100, 500>>,
             pointSpacing |-> <<1500, 5000>>]
      [] l = "v21" ->
            [size |-> <<1500, 5000>>, thinning |-> <<-300, 500>>,
             roughness |-> <<500, 2500>>, bowing |-> <<300, 1800>>]
      [] l = "v32" ->
            [size |-> <<1500, 5000>>, thinning |-> <<-100, 500>>,
             roughness |-> <<1000, 3500>>, bowing |-> <<500, 2500>>]
      [] l = "v40" ->
            [size |-> <<1000, 6000>>, thinning |-> <<-100, 600>>,
             roughness |-> <<500, 4000>>, bowing |-> <<300, 3000>>]

InRange(x, pair) == pair[1] <= x /\ x <= pair[2]

\* C1 (Clamping invariant): whatever the base and variance entries hold and
\* whatever Math.random returns, every randomized field returned by
\* getRandomizedSettings (v1.0, v2.1) and getSettings() (v3.2) lies within the
\* [min, max] pair of its clamp call.
C1_ClampingInvariant ==
    (settings # None /\ lib \in {"hack", "v21", "v32"}) =>
        \A f \in DOMAIN ClampRange(lib) : InRange(settings[f], ClampRange(lib)[f])

\* C1 witness: a negative variance drove the v3.2 size far above its range and
\* the returned size sits on the upper clamp bound.
C1_Witness ==
    /\ lib = "v32"
    /\ settings # None
    /\ config.CONFIG.sizeVariance = -1000000
    /\ settings.size = 5000

\* C6 (Out-of-range style parameters are always clamped): for every category
\* and every value stored in a MASTER_SETTINGS category override (strokeSize,
\* thinning, roughness, bowing), the field getSettings(category) returns lies
\* within the bounds applied to the randomized global value.
C6_OverridesClamped ==
    (settings # None /\ lib = "v40" /\ settings.category # "") =>
        \A f \in DOMAIN ClampRange("v40") : InRange(settings[f], ClampRange("v40")[f])

\* ------------------------------------------------------------------------
\* Specification SpecLine: a settings bundle is generated for an element and
\* strokes are drawn with it, through the line samplers and the draw stage.
\* ------------------------------------------------------------------------
MaxRuns == 2        \* draw calls followed per settings bundle

SamplerLibs == Libs \cup {"rough"}

\* src/unnamed/part_000  getRandomizedSettings
getRandomizedSettingsRough(c, r) ==
    LET B == c.BASE_SETTINGS IN
    [size       |-> clamp(rand(B.size, 1500, Draw(r, 1)), 2000, 8000),
     thinning   |-> clamp(rand(B.thinning, 100, Draw(r, 2)), -500, 500),
     smoothing  |-> 500,
     streamline |-> 500,
     roughness  |-> clamp(rand(B.roughness, 500, Draw(r, 3)), 500, 3000),
     bowing     |-> clamp(rand(B.bowing, 500, Draw(r, 4)), 0, 2000),
     seed       |-> Draw(r, 5) * 10,                \* Math.floor(Math.random() * 1000)
     category   |-> "",
     draws      |-> 5]

\* the settings tables the sampler is run under: the source defaults and
\* edits of the entries the samplers read (v3.2 and v4.0 within the ranges the
\* comments of MASTER_SETTINGS.line give and, in v4.0, with no minimum step
\* count; v1.0 beyond the clamp range)
LineConfigs(l) ==
    CASE l = "hack" ->
            {[HackDefaults EXCEPT !.BASE_SETTINGS.pressureMin = pm,
                                  !.BASE_SETTINGS.pressureVar = pv] :
                pm \in {400, 1000000}, pv \in {300, 1000000}}
      [] l = "v40" ->
            {[V40Defaults EXCEPT !.line.minSteps = ms, !.line.stepDivisor = sd] :
                ms \in {0, 5, 15}, sd \in {2500, 5000}}
      [] l = "v32" ->
            {[V32Defaults EXCEPT !.line.stepDivisor = sd] : sd \in {1500, 2500}}
      [] OTHER -> {Defaults(l)}

\* primitives: segments from Origin of length 0, 1, 5 and 50, and segments whose
\* end point has a NaN or an infinite coordinate
Origin == <<Fin(10), Fin(20)>>
EndPoints ==
    {Origin, <<Fin(11), Fin(20)>>, <<Fin(13), Fin(24)>>, <<Fin(40), Fin(60)>>,
     <<NaN, Fin(20)>>, <<PosInf, Fin(20)>>}
Segments == {[p0 |-> Origin, p1 |-> e] : e \in EndPoints}

Move(p) == [op |-> "move", data |-> p]
LineTo(p) == [op |-> "lineTo", data |-> p]
BcurveTo(p1, p2, p3) == [op |-> "bcurveTo", data |-> p1 \o p2 \o p3]

\* op sets as rough.js hands them over: a lone move, a line, a curve
OpSets ==
    {<<Move(Origin)>>,
     <<Move(Origin), BcurveTo(<<Fin(20), Fin(25)>>, <<Fin(30), Fin(50)>>, <<Fin(40), Fin(60)>>)>>}
    \cup {<<Move(Origin), LineTo(e)>> : e \in EndPoints}

\* point lists as the processors hand them to drawPoints
PointLists ==
    LET pts == <<Point(Fin(10000), Fin(20000), Fin(500)),
                 Point(Fin(10400), Fin(20300), Fin(500))>>
    IN  {SubSeq(pts, 1, n) : n \in 1 .. 2}

IsFiniteSegment(seg) ==
    \A p \in {seg.p0, seg.p1} : p[1].k = "fin" /\ p[2].k = "fin"

LineInit ==
    /\ lib \in SamplerLibs
    /\ config \in LineConfigs(lib)
    /\ rng \in 0 .. (NRand - 1)
    /\ settings = None
    /\ runs = <<>>
    /\ NoPage

GetRandomizedSettingsRough ==
    /\ lib = "rough"
    /\ ~Stalled
    /\ settings' = getRandomizedSettingsRough(config, rng)
    /\ rng' = Advance(rng, settings'.draws)
    /\ runs' = <<>>
    /\ UNCHANGED <<lib, config, page>>

CanDraw == settings # None /\ ~Stalled /\ Len(runs) < MaxRuns

\* the call is recorded and the random source has moved on by its draws
Record(run) ==
    /\ runs' = Append(runs, run)
    /\ rng' = Advance(rng, run.draws)

\* the factor, in thousandths, by which a processor of v1.0 scales
\* settings.size for its k-th stroke on an element of height h
\* (`s1.size *= sizeScale * 0.7` and the like); 1000 where it does not
sizeFactor(f, k, h) ==
    CASE f = "processSqrt" ->
            (Max2(600, Min2(1200, (h * 1000) \div 40)) * <<700, 1100, 1100, 1000>>[k]) \div 1000
      [] f = "processArrows" ->
            IF k = 1 THEN Max2(600, Min2(1000, (h * 1000) \div 15)) ELSE 900
      [] f = "processBoxed"  -> 800
      [] f = "processBraces" -> 700
      [] OTHER               -> 1000

\* the strokes each processor of v1.0 draws per element
HackStrokes ==
    [processHorizontalLines |-> 1, processSqrt |-> 4, processArrows |-> 3,
     processCancel |-> 1, processBoxed |-> 4, processBraces |-> 4]

\* heights of the elements whose strokes are followed
Heights == {10, 40}

\* `settings.size *= factor`, between getRandomizedSettings and drawPath
ScaleSize(f, k, h) ==
    /\ lib = "hack"
    /\ settings # None /\ "factor" \notin DOMAIN settings
    /\ runs = <<>>
    /\ k \in 1 .. HackStrokes[f]
    /\ settings' = Put([settings EXCEPT !.size = (@ * sizeFactor(f, k, h)) \div 1000],
                       "factor", sizeFactor(f, k, h))
    /\ UNCHANGED <<lib, config, rng, runs, page>>

DrawPath(seg) ==
    /\ lib = "hack"
    /\ CanDraw
    /\ Record(drawPath(seg, settings, rng))
    /\ UNCHANGED <<lib, config, settings, page>>

DrawRoughShape(ops) ==
    /\ lib \in {"v21", "rough", "v32", "v40"}
    /\ CanDraw
    /\ Record(drawRoughShape(lib, config, rng, ops))
    /\ UNCHANGED <<lib, config, settings, page>>

DrawPoints(points) ==
    /\ lib \in {"v32", "v40"}
    /\ CanDraw
    /\ Record(drawPoints(points))
    /\ UNCHANGED <<lib, config, settings, page>>

LineNext ==
    \/ GetRandomizedSettingsHack
    \/ GetRandomizedSettingsV21
    \/ GetRandomizedSettingsRough
    \/ GetSettingsV32
    \/ GetSettingsV40("")
    \/ \E f \in DOMAIN HackStrokes, k \in 1 .. 4, h \in Heights : ScaleSize(f, k, h)
    \/ \E seg \in Segments : DrawPath(seg)
    \/ \E ops \in OpSets : DrawRoughShape(ops)
    \/ \E points \in PointLists : DrawPoints(points)

SpecLine == LineInit /\ [][LineNext]_vars

\* the segment a run sampled with the line sampler, when it is a run over one
\* straight segment
IsLineRun(run) ==
    \/ run.kind = "line"
    \/ run.kind = "shape" /\ Len(run.input) = 2 /\ run.input[2].op = "lineTo"

SegmentOf(run) ==
    IF run.kind = "line" THEN run.input
    ELSE [p0 |-> run.input[1].data, p1 |-> run.input[2].data]

IsFiniteLineRun(run) == IsLineRun(run) /\ IsFiniteSegment(SegmentOf(run))

\* squared length of the segment of a finite line run
Length2(run) == Dist2(SegmentOf(run)).v

\* the configured minimum step count of the script's line sampler
MinimumSteps ==
    CASE lib = "hack"           -> settings.minPoints
      [] lib \in {"v32", "v40"} -> config.line.minSteps
      [] lib = "v21"            -> 8
      [] lib = "rough"          -> 5

\* C4 (Determinism under a fixed seed): two runs of the sampling pipeline of
\* v4.0 on the same primitive under the same settings bundle, seed included,
\* return the same point sequence, whatever the random source holds at each run.
C4_DeterministicUnderSeed ==
    lib = "v40" =>
        \A i, j \in DOMAIN runs :
            (/\ runs[i].kind = "shape" /\ runs[j].kind = "shape"
             /\ runs[i].input = runs[j].input
             /\ runs[i].ret /\ runs[j].ret)
                => runs[i].points = runs[j].points

\* C7 (Pressure range): every point produced by handLine, interpolateLine or
\* interpolateBezier under settings within the clamp bounds carries a pressure
\* that is a number between 0 and 1.
C7_PressureInUnitRange ==
    \A i \in DOMAIN runs :
        (runs[i].ret /\ runs[i].kind \in {"line", "shape"}) =>
            \A k \in DOMAIN runs[i].points :
                /\ Pressure(runs[i].points[k]).k = "fin"
                /\ Pressure(runs[i].points[k]).v >= 0
                /\ Pressure(runs[i].points[k]).v <= 1000

\* C8 (Sample density floor): for a straight segment with finite end points the
\* line sampler returns at least the configured minimum number of samples, and
\* under the same settings a segment that is not longer than another gets no
\* more samples than it.
C8_SampleDensityFloor ==
    \A i \in DOMAIN runs :
        IsFiniteLineRun(runs[i]) =>
            /\ runs[i].samples >= MinimumSteps
            /\ \A j \in DOMAIN runs :
                   (IsFiniteLineRun(runs[j]) /\ Length2(runs[i]) <= Length2(runs[j]))
                       => runs[i].samples <= runs[j].samples

\* v4.0 sampled a segment of length 5 at the floor and then one of length 50
\* above it
C8_Witness ==
    /\ lib = "v40"
    /\ Len(runs) = 2
    /\ IsFiniteLineRun(runs[1]) /\ IsFiniteLineRun(runs[2])
    /\ Length2(runs[1]) = 25 /\ Length2(runs[2]) = 2500
    /\ runs[1].samples = config.line.minSteps + 1
    /\ runs[2].samples > runs[1].samples

\* C9 (Short input still drawn): when drawPoints, or drawRoughShape for one op
\* set, of v3.2 or v4.0 has exactly one or exactly two points, getStroke is invoked and a path
\* element is appended.
C9_ShortInputStillDrawn ==
    \A i \in DOMAIN runs :
        (/\ lib \in {"v32", "v40"}
         /\ runs[i].kind \in {"shape", "points"}
         /\ runs[i].ret
         /\ Len(runs[i].points) \in {1, 2})
            => (runs[i].outlined /\ runs[i].paths = 1)

\* C10 (Invalid numbers never stall the batch): drawRoughShape of v3.2 or v4.0
\* over a segment
\* with a NaN or infinite end point coordinate returns, its interpolateLine
\* call having returned a point list.
C10_NonFiniteInputReturns ==
    \A i \in DOMAIN runs :
        (/\ lib \in {"v32", "v40"}
         /\ IsLineRun(runs[i])
         /\ ~IsFiniteSegment(SegmentOf(runs[i])))
            => runs[i].ret

\* ========================================================================
\* The page.  The scripts work on the markup KaTeX has rendered into the
\* document.  An element is a record; dom is the sequence of the elements,
\* an element's id is its index and parent = 0 is the document root.  The
\* children of an element are in the order of their ids: appendChild gives
\* the new element the highest id.  An svg element carries its children as
\* counts: orig KaTeX <path>s, lines <line>s (hidden of them with inline
\* opacity 0), paths <path>s the script has drawn.  w and h are the size
\* getBoundingClientRect reports, in pixels.
\* ========================================================================
NoStyle ==
    [position |-> "", opacity |-> "", visibility |-> "",
     borderBottomColor |-> "", borderRightColor |-> "", border |-> ""]

Element(parent, tag, cls, w, h, viewBox, orig, lines) ==
    [parent |-> parent, tag |-> tag, cls |-> cls, w |-> w, h |-> h,
     viewBox |-> viewBox, hwk |-> "", style |-> NoStyle,
     orig |-> orig, lines |-> lines, hidden |-> 0, paths |-> 0]

Span(parent, cls, size) == Element(parent, "span", cls, size[1], size[2], <<>>, 0, 0)
Svg(parent, size, viewBox, orig, lines) ==
    Element(parent, "svg", {}, size[1], size[2], viewBox, orig, lines)

\* the proper ancestors of element n
RECURSIVE ancestors(_, _)
ancestors(d, n) ==
    IF d[n].parent = 0 THEN {} ELSE {d[n].parent} \cup ancestors(d, d[n].parent)

\* Element.closest('.c'): n or its nearest ancestor of class c, 0 for null
RECURSIVE closest(_, _, _)
closest(d, n, c) ==
    IF n = 0 THEN 0
    ELSE IF c \in d[n].cls THEN n
    ELSE closest(d, d[n].parent, c)

\* n matches the right end of the descendant selector '.c1 .c2 ... x':
\* it lies below a .ck that lies below a .c(k-1) ...
RECURSIVE below(_, _, _)
below(d, n, chain) ==
    IF chain = <<>> THEN TRUE
    ELSE \E a \in ancestors(d, n) :
            /\ chain[Len(chain)] \in d[a].cls
            /\ below(d, a, SubSeq(chain, 1, Len(chain) - 1))

\* document order: the order of the paths of ids from the root
RECURSIVE pathTo(_, _)
pathTo(d, n) == IF n = 0 THEN <<>> ELSE Append(pathTo(d, d[n].parent), n)

RECURSIVE precedes(_, _)
precedes(p, q) ==
    IF p = <<>> THEN q # <<>>
    ELSE IF q = <<>> THEN FALSE
    ELSE IF Head(p) = Head(q) THEN precedes(Tail(p), Tail(q))
    ELSE Head(p) < Head(q)

\* querySelector: the first element of S in document order, 0 for null
querySelector(d, S) ==
    IF S = {} THEN 0
    ELSE CHOOSE n \in S : \A m \in S \ {n} : precedes(pathTo(d, n), pathTo(d, m))

\* querySelectorAll: the elements of S as a static list in document order
RECURSIVE querySelectorAll(_, _)
querySelectorAll(d, S) ==
    IF S = {} THEN <<>>
    ELSE <<querySelector(d, S)>> \o querySelectorAll(d, S \ {querySelector(d, S)})

\* '.a, .b': the elements of one of the classes cs
withClass(d, cs) == {n \in DOMAIN d : d[n].cls \cap cs # {}}
\* '.c1 .c2 svg'
svgsBelow(d, chain) == {n \in DOMAIN d : d[n].tag = "svg" /\ below(d, n, chain)}
\* el.querySelectorAll('svg')
svgsIn(d, el) == {n \in DOMAIN d : d[n].tag = "svg" /\ el \in ancestors(d, n)}

\* ---- what a forEach callback does to the page: st = [dom, count] ----
\* el.dataset.hwk = v
mark(st, n, v) == [st EXCEPT !.dom[n].hwk = v]

\* e.style[prop] = v for every e of S
setStyle(st, S, prop, v) ==
    [st EXCEPT !.dom = [i \in DOMAIN st.dom |->
        IF i \in S THEN [st.dom[i] EXCEPT !.style[prop] = v] ELSE st.dom[i]]]

\* createSVG / createOverlaySVG followed by k draw calls into the new svg:
\* only v1.0 gives the overlay a viewBox
createSVG(l, w, h, k) ==
    [Element(0, "svg", {"hwk-overlay"}, w, h,
             IF l = "hack" THEN <<0, 0, w, h>> ELSE <<>>, 0, 0)
        EXCEPT !.style.position = "absolute", !.paths = k]

\* count++ (v3.2 and v4.0 count the elements a processor has drawn)
counted(l, st) == IF l \in {"v32", "v40"} THEN [st EXCEPT !.count = @ + 1] ELSE st

\* host.style.position = 'relative'; host.appendChild(svg)
overlaid(l, st, host, svg) ==
    counted(l, [setStyle(st, {host}, "position", "relative")
                    EXCEPT !.dom = Append(@, [svg EXCEPT !.parent = host])])

\* clearSVG(svg); [svg.setAttribute('viewBox', `0 0 ${width} ${height}`);]
\* k draw calls into svg
redrawn(l, st, svg, viewBox, k) ==
    counted(l, [st EXCEPT !.dom[svg].orig = 0, !.dom[svg].lines = 0,
                          !.dom[svg].hidden = 0, !.dom[svg].paths = k,
                          !.dom[svg].viewBox = viewBox])

\* ------------------------------------------------------------------------
\* The processors.  Each operator is the body of the forEach callback of
\* the function of its name, for the script l that has it; selected gives
\* the list the function iterates.
\* ------------------------------------------------------------------------
\* A line drawn over a bordered element (fraction bar, strikethrough, box,
\* table rule): the element is marked, its border made invisible and the
\* stroke laid over it.  v1.0 and v2.1 mark before they measure.
ruled(l, st, el, name, markFirst, tooSmall, prop, value, svg) ==
    IF st.dom[el].hwk # "" THEN st
    ELSE IF tooSmall THEN (IF markFirst THEN mark(st, el, name) ELSE st)
    ELSE overlaid(l, setStyle(mark(st, el, name), {el}, prop, value), el, svg)

\* An original svg hidden behind an overlay (v1.0, v2.1): the svg found
\* for the element is marked, made transparent, and the overlay is
\* appended to host.  measured is the element whose rect is tested.
hiddenBehind(l, st, origSvg, host, measured, minW, minH, padW, padH, k) ==
    IF origSvg = 0 THEN st
    ELSE IF st.dom[origSvg].hwk # "" THEN st
    ELSE IF st.dom[measured].w < minW \/ st.dom[measured].h < minH
         THEN mark(st, origSvg, "1")
    ELSE overlaid(l, setStyle(mark(st, origSvg, "1"), {origSvg}, "opacity", "0"), host,
                  createSVG(l, st.dom[measured].w + padW, st.dom[measured].h + padH, k))

\* An original svg redrawn in place (v3.2, v4.0): marked, measured, its
\* children removed, its viewBox set to its size, k strokes drawn into it.
redrawnInPlace(l, st, svg, name, minW, minH, k) ==
    IF svg = 0 THEN st
    ELSE IF st.dom[svg].hwk # "" THEN st
    ELSE IF st.dom[svg].w < minW \/ st.dom[svg].h < minH THEN mark(st, svg, name)
    ELSE redrawn(l, mark(st, svg, name), svg, <<0, 0, st.dom[svg].w, st.dom[svg].h>>, k)

processHorizontalLines(l, st, el) ==
    ruled(l, st, el, IF l \in {"hack", "v21"} THEN "1" ELSE "hline",
          l \in {"hack", "v21"}, st.dom[el].w < 2,
          "borderBottomColor", "transparent", createSVG(l, st.dom[el].w, 20, 1))

\* findDirectSvgForSqrt of v1.0, findDirectSvg of v2.1 (which passes over
\* the svgs already marked): the first svg inside sqrtEl that no nested
\* .sqrt holds and whose .hide-tail has sqrtEl as nearest .sqrt; 0 for null
findDirectSvgForSqrt(l, d, sqrtEl) ==
    querySelector(d, {svg \in svgsIn(d, sqrtEl) :
        /\ l = "v21" => d[svg].hwk = ""
        /\ closest(d, d[svg].parent, "sqrt") = sqrtEl
        /\ closest(d, svg, "hide-tail") # 0
        /\ closest(d, d[closest(d, svg, "hide-tail")].parent, "sqrt") = sqrtEl})

\* phase 1 of processSqrt: the svg of every .sqrt in document order (0: no
\* entry in the map sqrtToSvg)
RECURSIVE sqrtToSvg(_, _, _, _)
sqrtToSvg(l, d, allSqrts, k) ==
    IF k > Len(allSqrts) THEN <<>>
    ELSE <<findDirectSvgForSqrt(l, d, allSqrts[k])>> \o sqrtToSvg(l, d, allSqrts, k + 1)

\* phase 2 of processSqrt
processSqrt(l, st, origSvg) ==
    IF origSvg = 0 THEN st
    ELSE hiddenBehind(l, st, origSvg, st.dom[origSvg].parent, origSvg, 5, 5, 0, 0, 4)

\* v2.1: .delimsizing elements holding an svg get a parenthesis overlay,
\* drawn only inside .mopen / .mclose.  v3.2, v4.0: stacked braces (and in
\* v4.0 stacked bars) are hidden behind an overlay, other svg delimiters
\* are redrawn in place.
svgDelimiter(l, st, delimEl, svg) ==
    IF svg = 0 THEN st
    ELSE IF st.dom[svg].hwk # "" \/ st.dom[svg].viewBox = <<>> THEN st
    ELSE redrawn(l, mark(mark(st, svg, "delimiter"), delimEl, "svg-delim"), svg,
                 st.dom[svg].viewBox, 1)

stackedDelimiter(l, st, delimEl, name, parts, k) ==
    overlaid(l, setStyle(mark(st, delimEl, name), parts, "visibility", "hidden"), delimEl,
             createSVG(l, st.dom[delimEl].w, st.dom[delimEl].h, k))

processDelimiters(l, st, delimEl) ==
    IF l = "v21"
    THEN hiddenBehind(l, st, querySelector(st.dom, svgsIn(st.dom, delimEl)), delimEl,
                      querySelector(st.dom, svgsIn(st.dom, delimEl)), 3, 10, 10, 4,
                      IF closest(st.dom, delimEl, "mopen") # 0
                         \/ closest(st.dom, delimEl, "mclose") # 0 THEN 1 ELSE 0)
    ELSE IF st.dom[delimEl].hwk # "" THEN st
    ELSE IF "mult" \in st.dom[delimEl].cls
            /\ withClass(st.dom, {"delimsizinginner"}) \cap
                 {n \in DOMAIN st.dom : delimEl \in ancestors(st.dom, n)} # {}
         THEN stackedDelimiter(l, st, delimEl, "stacked-brace",
                  (withClass(st.dom, {"delimsizinginner"}) \cap
                     {n \in DOMAIN st.dom : delimEl \in ancestors(st.dom, n)})
                  \cup svgsIn(st.dom, delimEl), 4)
    ELSE IF l = "v40" /\ "mult" \in st.dom[delimEl].cls /\ svgsIn(st.dom, delimEl) # {}
         THEN stackedDelimiter(l, st, delimEl, "stacked-vbar", svgsIn(st.dom, delimEl), 1)
    ELSE svgDelimiter(l, st, delimEl, querySelector(st.dom, svgsIn(st.dom, delimEl)))

processArrows(l, st, el) ==
    IF closest(st.dom, el, "sqrt") # 0 THEN st
    ELSE IF l = "v21" /\ closest(st.dom, el, "delimsizing") # 0 THEN st
    ELSE hiddenBehind(l, st, querySelector(st.dom, svgsIn(st.dom, el)), el, el, 15, 3, 0, 0, 3)

\* v1.0: the svg of a .cancel-pad / .cancel is hidden behind an overlay.
\* v3.2: every line of an svg below .svg-align is made transparent and
\* redrawn into the svg.  v4.0: the first line of an svg below .cancel-pad
\* or .cancel.
processCancel(l, st, x) ==
    IF l = "hack"
    THEN hiddenBehind(l, st, querySelector(st.dom, svgsIn(st.dom, x)), x, x, 5, 5, 0, 0, 1)
    ELSE IF st.dom[x].lines = 0 \/ st.dom[x].hwk # "" THEN st
    ELSE IF l = "v32" /\ (st.dom[x].w < 3 \/ st.dom[x].h < 3) THEN mark(st, x, "cancel")
    ELSE IF l = "v32"
         THEN counted(l, [mark(st, x, "cancel") EXCEPT
                            !.dom[x].hidden = st.dom[x].lines,
                            !.dom[x].viewBox = <<0, 0, st.dom[x].w, st.dom[x].h>>,
                            !.dom[x].paths = @ + st.dom[x].lines])
    ELSE counted(l, [mark(st, x, "cancel") EXCEPT
                        !.dom[x].hidden = Max2(@, 1), !.dom[x].paths = @ + 1])

processBoxed(l, st, el) ==
    ruled(l, st, el, IF l \in {"hack", "v21"} THEN "1" ELSE "boxed", TRUE,
          st.dom[el].w < 5 \/ st.dom[el].h < 5, "border", "none",
          createSVG(l, st.dom[el].w, st.dom[el].h, IF l = "hack" THEN 4 ELSE 1))

\* v1.0, v2.1: every unmarked svg below .munder / .mover of a brace-like
\* shape is marked, made transparent and gets an overlay of its own size
processBraces(l, st, svg) ==
    IF st.dom[svg].hwk # "" THEN st
    ELSE IF l = "v21" /\ closest(st.dom, svg, "delimsizing") # 0 THEN st
    ELSE IF st.dom[svg].w < 20 \/ st.dom[svg].h > 30 \/ st.dom[svg].w < 3 * st.dom[svg].h
         THEN st
    ELSE overlaid(l, setStyle(mark(st, svg, "1"), {svg}, "opacity", "0"),
                  st.dom[svg].parent, createSVG(l, st.dom[svg].w, st.dom[svg].h, 4))

processSquareRoots(l, st, svg) ==
    IF st.dom[svg].hwk # "" \/ st.dom[svg].viewBox = <<>> THEN st
    ELSE redrawn(l, mark(st, svg, "sqrt"), svg, st.dom[svg].viewBox, 4)

processExtensibleArrows(l, st, arrowEl) ==
    redrawnInPlace(l, st,
        querySelector(st.dom, svgsIn(st.dom, arrowEl) \cap svgsBelow(st.dom, <<"hide-tail">>)),
        "xarrow", 10, 5, 3)

processStretchyBraces(l, st, el) ==
    IF \/ closest(st.dom, el, "delimsizing") # 0
       \/ "sout" \in st.dom[el].cls
       \/ st.dom[el].hwk # "" THEN st
    ELSE IF closest(st.dom, el, "mover") = 0 /\ closest(st.dom, el, "munder") = 0 THEN st
    ELSE IF st.dom[el].w < 10 \/ (l = "v32" /\ st.dom[el].h < 3)
         THEN mark(st, el, IF l = "v32" THEN "stretchy-brace" ELSE "stretchy")
    ELSE overlaid(l, setStyle(mark(st, el, IF l = "v32" THEN "stretchy-brace" ELSE "stretchy"),
                              svgsIn(st.dom, el), "opacity", "0"),
                  el, createSVG(l, st.dom[el].w, st.dom[el].h, 4))

\* the svg of an .accent: v4.0 leaves the \vec arrows (inside .overlay,
\* viewBox '... 471 714') to processVectorArrows.  v3.2 draws a hat of two
\* strokes when width > height * 3.5 and a tilde of one stroke otherwise.
wideAccent(l, st, svg) ==
    IF svg = 0 THEN st
    ELSE IF st.dom[svg].hwk # "" \/ st.dom[svg].lines > 0 THEN st
    ELSE IF l = "v40" /\ (\/ closest(st.dom, svg, "overlay") # 0
                          \/ st.dom[svg].viewBox = <<>>
                          \/ SubSeq(st.dom[svg].viewBox, 3, 4) = <<471, 714>>) THEN st
    ELSE redrawnInPlace(l, st, svg, "wide-accent", 5, 3,
                        IF l = "v32" /\ 2 * st.dom[svg].w <= 7 * st.dom[svg].h THEN 1 ELSE 2)

processWideAccents(l, st, accentEl) ==
    wideAccent(l, st, querySelector(st.dom, svgsIn(st.dom, accentEl)))

processStrikethrough(l, st, el) ==
    ruled(l, st, el, IF l = "v32" THEN "strikethrough" ELSE "sout", TRUE,
          st.dom[el].w < 3, "borderBottomColor", "transparent",
          createSVG(l, st.dom[el].w, 20, 1))

\* the two loops of processTableLines (v4.0): over .hline, then over
\* .vertical-separator
processTableLines(l, st, el, second) ==
    IF ~second
    THEN ruled(l, st, el, "table-hline", FALSE, st.dom[el].w < 3,
               "borderBottomColor", "transparent", createSVG(l, st.dom[el].w, 12, 1))
    ELSE ruled(l, st, el, "table-vline", FALSE, st.dom[el].h < 3,
               "borderRightColor", "transparent", createSVG(l, 12, st.dom[el].h, 1))

processVectorArrows(l, st, svg) ==
    IF st.dom[svg].hwk # "" THEN st
    ELSE IF \A i \in DOMAIN st.dom[svg].viewBox : st.dom[svg].viewBox[i] # 471 THEN st
    ELSE redrawnInPlace(l, st, svg, "vec-arrow", 3, 3, 3)

\* the elements a processor's querySelectorAll selects in script l
selected(l, f, d) ==
    CASE f = "processHorizontalLines" ->
            withClass(d, {"frac-line", "overline-line", "underline-line"}
                         \cup (IF l = "v40" THEN {} ELSE {"hline"})
                         \cup (IF l \in {"hack", "v21"} THEN {"sout"} ELSE {}))
      [] f = "processSqrt" -> withClass(d, {"sqrt"})
      [] f = "processDelimiters" -> withClass(d, {"delimsizing"})
      [] f = "processArrows" -> withClass(d, {"x-arrow", "stretchy"})
      [] f = "processCancel" ->
            IF l = "hack" THEN withClass(d, {"cancel-pad", "cancel"})
            ELSE IF l = "v32" THEN svgsBelow(d, <<"svg-align">>)
            ELSE svgsBelow(d, <<"cancel-pad">>) \cup svgsBelow(d, <<"cancel">>)
      [] f = "processBoxed" -> withClass(d, {"boxed", "fbox"})
      [] f = "processBraces" -> svgsBelow(d, <<"munder">>) \cup svgsBelow(d, <<"mover">>)
      [] f = "processSquareRoots" -> svgsBelow(d, <<"sqrt", "hide-tail">>)
      [] f = "processExtensibleArrows" -> withClass(d, {"x-arrow"})
      [] f = "processStretchyBraces" -> withClass(d, {"stretchy"})
      [] f = "processWideAccents" -> withClass(d, {"accent"})
      [] f = "processStrikethrough" -> withClass(d, {"stretchy"}) \cap withClass(d, {"sout"})
      [] f = "processTableLines" -> withClass(d, {"hline"})
      [] f = "processTableLines.2" -> withClass(d, {"vertical-separator"})
      [] f = "processVectorArrows" -> svgsBelow(d, <<"overlay">>)

\* the list a forEach of processor f walks: the static list of the
\* selected elements, in processSqrt the values of the map built from it
elements(l, f, d) ==
    IF f = "processSqrt"
    THEN sqrtToSvg(l, d, querySelectorAll(d, selected(l, f, d)), 1)
    ELSE querySelectorAll(d, selected(l, f, d))

\* the callback of processor f applied to one element
visit(l, f, st, el) ==
    CASE f = "processHorizontalLines" -> processHorizontalLines(l, st, el)
      [] f = "processSqrt" -> processSqrt(l, st, el)
      [] f = "processDelimiters" -> processDelimiters(l, st, el)
      [] f = "processArrows" -> processArrows(l, st, el)
      [] f = "processCancel" -> processCancel(l, st, el)
      [] f = "processBoxed" -> processBoxed(l, st, el)
      [] f = "processBraces" -> processBraces(l, st, el)
      [] f = "processSquareRoots" -> processSquareRoots(l, st, el)
      [] f = "processExtensibleArrows" -> processExtensibleArrows(l, st, el)
      [] f = "processStretchyBraces" -> processStretchyBraces(l, st, el)
      [] f = "processWideAccents" -> processWideAccents(l, st, el)
      [] f = "processStrikethrough" -> processStrikethrough(l, st, el)
      [] f = "processTableLines" -> processTableLines(l, st, el, FALSE)
      [] f = "processTableLines.2" -> processTableLines(l, st, el, TRUE)
      [] f = "processVectorArrows" -> processVectorArrows(l, st, el)

RECURSIVE forEach(_, _, _, _, _)
forEach(l, f, els, k, st) ==
    IF k > Len(els) THEN st
    ELSE forEach(l, f, els, k + 1, visit(l, f, st, els[k]))

\* one querySelectorAll(...).forEach(...) of processor f on the page st
loop(l, f, st) == forEach(l, f, elements(l, f, st.dom), 1, st)

\* processor f run on document d: [dom, count], count its return value
process(l, f, d) ==
    IF f = "processTableLines"
    THEN loop(l, "processTableLines.2", loop(l, f, [dom |-> d, count |-> 0]))
    ELSE loop(l, f, [dom |-> d, count |-> 0])

\* the processors applyHandwritingGeometry calls, in its order
Processors(l) ==
    CASE l = "hack" -> <<"processHorizontalLines", "processSqrt", "processArrows",
                         "processCancel", "processBoxed", "processBraces">>
      [] l = "v21"  -> <<"processHorizontalLines", "processSqrt", "processDelimiters",
                         "processArrows", "processBoxed", "processBraces">>
      [] l = "v32"  -> <<"processDelimiters", "processHorizontalLines", "processSquareRoots",
                         "processExtensibleArrows", "processStretchyBraces",
                         "processWideAccents", "processCancel", "processStrikethrough",
                         "processBoxed">>
      [] l = "v40"  -> <<"processDelimiters", "processHorizontalLines", "processSquareRoots",
                         "processExtensibleArrows", "processStretchyBraces",
                         "processWideAccents", "processCancel", "processStrikethrough",
                         "processBoxed", "processTableLines", "processVectorArrows">>

\* the keys of the counts object of v3.2 / v4.0, in the order of Processors
CountKeys ==
    <<"delimiters", "hlines", "sqrts", "xarrows", "braces", "accents", "cancel",
      "strike", "boxed", "tableLines", "vectorArrows">>

\* the page after one more processor has returned its count
entered(acc, st) == [dom |-> st.dom, counts |-> Append(acc.counts, st.count)]

\* the synchronous part of applyHandwritingGeometry: every processor in
\* turn on the document the previous one left.  [dom, counts], counts the
\* values returned so far
RECURSIVE runProcessors(_, _, _)
runProcessors(l, fs, acc) ==
    IF Len(acc.counts) >= Len(fs) THEN acc
    ELSE runProcessors(l, fs, entered(acc, process(l, fs[Len(acc.counts) + 1], acc.dom)))

Undefined == [undefined |-> TRUE]

\* what the call returns: the counts object in v3.2 / v4.0, nothing before
reported(l, acc) ==
    [dom |-> acc.dom,
     counts |-> IF l \in {"v32", "v40"}
                THEN [key \in {CountKeys[i] : i \in DOMAIN acc.counts} |->
                        acc.counts[CHOOSE i \in DOMAIN acc.counts : CountKeys[i] = key]]
                ELSE Undefined]

applyHandwritingGeometry(l, d) ==
    reported(l, runProcessors(l, Processors(l), [dom |-> d, counts |-> <<>>]))

\* clearHandwritingGeometry: the overlays are removed (they are the newest
\* elements and have no element children, so the ids of the others stay),
\* v3.2 / v4.0 remove the drawn .hwk-path paths, the marks are removed and
\* some inline styles are reset
isKept(e) == "hwk-overlay" \notin e.cls

cleared(l, d, n) ==
    LET onMarked == d[n].hwk # ""
        stretchySvg == n \in svgsBelow(d, <<"stretchy">>)
        onParts == \/ l = "v32" /\ stretchySvg
                   \/ l = "v40" /\ (\/ stretchySvg
                                    \/ "delimsizinginner" \in d[n].cls
                                    \/ n \in svgsBelow(d, <<"delimsizing">>))
    IN [d[n] EXCEPT
          !.hwk = "",
          !.paths = IF l \in {"v32", "v40"} THEN 0 ELSE @,
          !.hidden = IF l \in {"v32", "v40"} THEN 0 ELSE @,
          !.style.borderBottomColor = IF onMarked THEN "" ELSE @,
          !.style.border = IF onMarked THEN "" ELSE @,
          !.style.opacity = IF onMarked \/ onParts THEN "" ELSE @,
          !.style.borderRightColor = IF l = "v40" /\ onMarked THEN "" ELSE @,
          !.style.visibility = IF l = "v40" /\ (onMarked \/ onParts) THEN "" ELSE @]

clearHandwritingGeometry(l, d) ==
    [n \in DOMAIN SelectSeq(d, isKept) |-> cleared(l, SelectSeq(d, isKept), n)]

\* ------------------------------------------------------------------------
\* SpecPage: one formula is rendered, then the page calls the API of the
\* script: applyHandwritingGeometry, clearHandwritingGeometry and, in v3.2
\* and v4.0, initDependencies.
\* ------------------------------------------------------------------------
MaxCalls == 3       \* API calls made on one page

\* sizes of the rendered elements: below every size test of the
\* processors, a flat shape that passes them all, a square shape too tall
\* to be taken for a brace
Sizes == {<<1, 1>>, <<40, 10>>, <<40, 40>>}

\* the KaTeX markup the selectors of the processors aim at; every element
\* of a formula has the size given
Formulas ==
    {"frac", "sqrt", "nested-sqrt", "xarrow", "overbrace", "boxed", "cancel", "sout",
     "paren", "bar", "brace", "widehat", "vec", "table", "hat-fbox"}

Document(formula, size) ==
    CASE formula = "frac" ->
            <<Span(0, {"mfrac"}, size), Span(1, {"frac-line"}, size)>>
      [] formula = "sqrt" ->
            <<Span(0, {"sqrt"}, size), Span(1, {"hide-tail"}, size),
              Svg(2, size, <<0, 0, 400000, 1080>>, 1, 0)>>
      [] formula = "nested-sqrt" ->
            <<Span(0, {"sqrt"}, size), Span(1, {"svg-align"}, size),
              Span(2, {"sqrt"}, size), Span(3, {"hide-tail"}, size),
              Svg(4, size, <<0, 0, 400000, 1080>>, 1, 0),
              Span(1, {"hide-tail"}, size), Svg(6, size, <<0, 0, 400000, 1080>>, 1, 0)>>
      [] formula = "xarrow" ->
            <<Span(0, {"x-arrow"}, size), Span(1, {"hide-tail"}, size),
              Svg(2, size, <<0, 0, 400000, 522>>, 1, 0)>>
      [] formula = "overbrace" ->
            <<Span(0, {"mover"}, size), Span(1, {"stretchy"}, size),
              Span(2, {"brace-center"}, size), Svg(3, size, <<0, 0, 400000, 548>>, 1, 0)>>
      [] formula = "boxed" ->
            <<Span(0, {"boxed"}, size)>>
      [] formula = "cancel" ->
            <<Span(0, {"cancel-pad"}, size), Span(1, {"svg-align"}, size),
              Svg(2, size, <<>>, 0, 1)>>
      [] formula = "sout" ->
            <<Span(0, {"stretchy", "sout"}, size)>>
      [] formula = "paren" ->
            <<Span(0, {"mopen"}, size), Span(1, {"delimsizing", "mult"}, size),
              Svg(2, size, <<0, 0, 875, 3600>>, 1, 0)>>
      [] formula = "bar" ->
            <<Span(0, {"mclose"}, size), Span(1, {"delimsizing"}, size),
              Svg(2, size, <<0, 0, 333, 1200>>, 1, 0)>>
      [] formula = "brace" ->
            <<Span(0, {"mopen"}, size), Span(1, {"delimsizing", "mult"}, size),
              Span(2, {"delimsizinginner"}, size), Svg(2, size, <<0, 0, 889, 300>>, 1, 0)>>
      [] formula = "widehat" ->
            <<Span(0, {"accent"}, size), Svg(1, size, <<0, 0, 1062, 239>>, 1, 0)>>
      [] formula = "vec" ->
            <<Span(0, {"accent"}, size), Span(1, {"overlay"}, size),
              Svg(2, size, <<0, 0, 471, 714>>, 1, 0)>>
      [] formula = "table" ->
            <<Span(0, {"mtable"}, size), Span(1, {"hline"}, size),
              Span(1, {"vertical-separator"}, size)>>
      [] formula = "hat-fbox" ->             \* \hat{\fbox{x}}: the hat is a glyph
            <<Span(0, {"accent"}, size), Span(1, {"accent-body"}, size),
              Span(2, {"fbox"}, size)>>

Documents == {Document(formula, size) : formula \in Formulas, size \in Sizes}

PageInit ==
    /\ lib \in Libs
    /\ config = Defaults(lib)
    /\ rng = 0
    /\ settings = None
    /\ runs = <<>>
    /\ rendered \in Documents
    /\ dom = rendered
    /\ dependenciesLoaded = FALSE
    /\ modules = None
    /\ awaiting = <<>>
    /\ calls = <<>>
    /\ returned = None

\* v3.2 and v4.0 import their two libraries on demand
Imports == lib \in {"v32", "v40"}

CanCall == Len(calls) + Len(awaiting) < MaxCalls

\* the processors have run: res = applyHandwritingGeometry(lib, dom).  The
\* strokes draw from Math.random, rough.js among them, by a number of
\* draws the sources do not fix.
Applied(res) ==
    /\ dom' = res.dom
    /\ returned' = res.counts
    /\ calls' = Append(calls, "apply")
    /\ rng' \in IF res.dom = dom THEN {rng} ELSE 0 .. (NRand - 1)

\* getStroke = perfectFreehand.getStroke; generator = rough.default.generator():
\* the import of a module already loaded yields the same module, so getStroke
\* is the same function each time; generator() makes a new object each time,
\* here the number of the call that made it
assigned(m) ==
    [getStroke |-> "perfectFreehand.getStroke",
     generator |-> IF m = None THEN 1 ELSE m.generator + 1]

\* a call of applyHandwritingGeometry: it runs at once, or waits for the
\* imports of initDependencies while dependenciesLoaded is false
ApplyHandwritingGeometry ==
    /\ CanCall
    /\ IF Imports /\ ~dependenciesLoaded
       THEN /\ awaiting' = Append(awaiting, "applyHandwritingGeometry")
            /\ UNCHANGED <<dom, returned, calls, rng>>
       ELSE /\ Applied(applyHandwritingGeometry(lib, dom))
            /\ UNCHANGED awaiting
    /\ UNCHANGED <<lib, config, settings, runs, rendered, dependenciesLoaded, modules>>

\* a direct call of initDependencies
InitDependencies ==
    /\ Imports
    /\ CanCall
    /\ IF dependenciesLoaded
       THEN /\ calls' = Append(calls, "initDependencies")
            /\ returned' = modules
            /\ UNCHANGED awaiting
       ELSE /\ awaiting' = Append(awaiting, "initDependencies")
            /\ UNCHANGED <<calls, returned>>
    /\ UNCHANGED <<lib, config, rng, settings, runs, rendered, dom, dependenciesLoaded, modules>>

Without(s, i) == SubSeq(s, 1, i - 1) \o SubSeq(s, i + 1, Len(s))

\* the imports of the i-th waiting call arrive: the flag is set and the
\* call goes on
ImportsResolve(i) ==
    /\ i \in DOMAIN awaiting
    /\ awaiting' = Without(awaiting, i)
    /\ modules' = assigned(modules)
    /\ dependenciesLoaded' = TRUE
    /\ IF awaiting[i] = "applyHandwritingGeometry"
       THEN Applied(applyHandwritingGeometry(lib, dom))
       ELSE /\ calls' = Append(calls, "initDependencies")
            /\ returned' = modules'
            /\ UNCHANGED <<dom, rng>>
    /\ UNCHANGED <<lib, config, settings, runs, rendered>>

\* the imports of the i-th waiting call fail: the call rejects
ImportsReject(i) ==
    /\ i \in DOMAIN awaiting
    /\ awaiting' = Without(awaiting, i)
    /\ calls' = Append(calls, "rejected")
    /\ returned' = [error |-> TRUE]
    /\ UNCHANGED <<lib, config, rng, settings, runs, rendered, dom, dependenciesLoaded, modules>>

ClearHandwritingGeometry ==
    /\ CanCall
    /\ dom' = clearHandwritingGeometry(lib, dom)
    /\ calls' = Append(calls, "clear")
    /\ returned' = Undefined
    /\ UNCHANGED <<lib, config, rng, settings, runs, rendered, dependenciesLoaded, modules, awaiting>>

PageNext ==
    \/ ApplyHandwritingGeometry
    \/ InitDependencies
    \/ \E i \in 1 .. MaxCalls : ImportsResolve(i)
    \/ \E i \in 1 .. MaxCalls : ImportsReject(i)
    \/ ClearHandwritingGeometry

SpecPage == PageInit /\ [][PageNext]_vars

\* ------------------------------------------------------------------------
\* Properties of the page
\* ------------------------------------------------------------------------
LastCalls(n) == SubSeq(calls, Len(calls) - n + 1, Len(calls))

\* C2: applyHandwritingGeometry of v1.0 is idempotent: once it has run, a
\* second call on the unchanged document adds no overlay, marks no
\* further element and changes no style, so the document stays as the
\* first call left it.
C2_ApplyIdempotent ==
    (lib = "hack" /\ Len(calls) >= 1 /\ LastCalls(1) = <<"apply">>)
        => applyHandwritingGeometry(lib, dom).dom = dom

\* the overlays of the document d
overlays(d) == {n \in DOMAIN d : "hwk-overlay" \in d[n].cls}

\* C3: clearHandwritingGeometry of v3.2 / v4.0 restores the original
\* content: after apply then clear every svg KaTeX rendered has the
\* children and the viewBox it had before apply, and no overlay and no
\* drawn path is left.
C3_ClearRestoresContent ==
    (lib \in {"v32", "v40"} /\ Len(calls) >= 2 /\ LastCalls(2) = <<"apply", "clear">>)
        => /\ overlays(dom) = {}
           /\ \A n \in DOMAIN dom : dom[n].paths = 0
           /\ \A n \in DOMAIN rendered :
                rendered[n].tag = "svg" =>
                    /\ n \in DOMAIN dom
                    /\ dom[n].orig = rendered[n].orig
                    /\ dom[n].lines = rendered[n].lines
                    /\ dom[n].viewBox = rendered[n].viewBox

\* the svgs KaTeX rendered inside a .hide-tail whose nearest .sqrt
\* ancestor is sqrtEl
ownSvgs(d, sqrtEl) ==
    {svg \in svgsIn(d, sqrtEl) \ overlays(d) :
        /\ closest(d, svg, "hide-tail") # 0
        /\ closest(d, d[closest(d, svg, "hide-tail")].parent, "sqrt") = sqrtEl}

\* the map of phase 1 sends each .sqrt to an svg inside a .hide-tail of
\* its own, and no svg to two of them
MapIsDirect(d, allSqrts, map) ==
    \A i \in DOMAIN map :
        map[i] # 0 =>
            /\ closest(d, map[i], "hide-tail") # 0
            /\ closest(d, d[closest(d, map[i], "hide-tail")].parent, "sqrt") = allSqrts[i]
            /\ \A j \in DOMAIN map : j # i => map[j] # map[i]

\* every .sqrt with an svg of its own of 5x5 or more has exactly one
\* overlay, next to that svg
OneOverlayEach(d) ==
    \A sqrtEl \in withClass(d, {"sqrt"}) :
        \A svg \in ownSvgs(d, sqrtEl) :
            (d[svg].w >= 5 /\ d[svg].h >= 5)
                => Cardinality({o \in overlays(d) : d[o].parent = d[svg].parent}) = 1

\* C5: processSqrt (v1.0, v2.1) never steals an svg: on the document as
\* it stands, phase 1 maps each .sqrt only to an svg inside a .hide-tail
\* whose nearest .sqrt ancestor is that element, no svg to two .sqrt, and
\* after processSqrt every .sqrt that owns such an svg of at least 5x5 has
\* exactly one overlay, placed next to its own svg.
C5_NestedSqrtOwnOverlay ==
    lib \in {"hack", "v21"}
        => /\ MapIsDirect(dom, querySelectorAll(dom, withClass(dom, {"sqrt"})),
                          elements(lib, "processSqrt", dom))
           /\ OneOverlayEach(process(lib, "processSqrt", dom).dom)

\* C11 (Zero-length primitive rejected): for a segment whose end points
\* coincide the line sampler returns an empty point sequence, and no sampled
\* point of such a segment has a NaN coordinate.
C11_ZeroLengthRejected ==
    \A i \in DOMAIN runs :
        (/\ IsFiniteLineRun(runs[i])
         /\ SegmentOf(runs[i]).p0 = SegmentOf(runs[i]).p1
         /\ runs[i].ret)
            => /\ runs[i].samples = 0
               /\ \A k \in DOMAIN runs[i].points :
                      runs[i].points[k][1] # NaN /\ runs[i].points[k][2] # NaN

\* C12: applyHandwritingGeometry of v3.2 / v4.0 never counts an element
\* twice: once a call has completed, a further call on the document as it
\* stands returns 0 for every count and adds no path and no overlay.
C12_NoDoubleCount ==
    (lib \in {"v32", "v40"} /\ Len(calls) >= 1 /\ LastCalls(1) = <<"apply">>)
        => /\ \A key \in DOMAIN applyHandwritingGeometry(lib, dom).counts :
                  applyHandwritingGeometry(lib, dom).counts[key] = 0
           /\ applyHandwritingGeometry(lib, dom).dom = dom

\* C13: dependencies are ensured before any drawing in v3.2 / v4.0: a call
\* of applyHandwritingGeometry completes its processors only with
\* dependenciesLoaded true; a failed initDependencies rejects the call and
\* leaves the document, dependenciesLoaded, getStroke and generator as they
\* were, so that a later call waits for the imports again while nothing is
\* loaded; and once a load has succeeded, getStroke and generator stay the
\* ones it assigned, initDependencies returns them and a new call imports
\* nothing.
C13_DependenciesEnsured ==
    [][Imports =>
         /\ calls' = Append(calls, "apply") => dependenciesLoaded'
         /\ calls' = Append(calls, "rejected")
              => /\ returned' = [error |-> TRUE]
                 /\ UNCHANGED <<dom, dependenciesLoaded, modules>>
         /\ ~dependenciesLoaded'
              => /\ modules' = None
                 /\ calls' \notin {Append(calls, "apply"), Append(calls, "initDependencies")}
         /\ dependenciesLoaded
              => /\ modules' = modules
                 /\ Len(awaiting') <= Len(awaiting)
                 /\ calls' = Append(calls, "initDependencies") => returned' = modules
      ]_vars

\* C14: clearHandwritingGeometry of v3.2 restores the appearance of
\* everything apply hid: after apply then clear no element KaTeX rendered
\* carries an inline visibility hidden or opacity 0, and no line of an svg
\* is transparent.
C14_ClearRestoresVisibility ==
    (lib = "v32" /\ Len(calls) >= 2 /\ LastCalls(2) = <<"apply", "clear">>)
        => \A n \in DOMAIN rendered :
               /\ n \in DOMAIN dom
               /\ dom[n].style.visibility # "hidden"
               /\ dom[n].style.opacity # "0"
               /\ dom[n].hidden = 0

\* C15: clearHandwritingGeometry of v1.0 resets to the original KaTeX:
\* after apply then clear no overlay and no data-hwk mark is left and every
\* element KaTeX rendered has the inline position, border, border colours
\* and opacity it had before apply.
C15_ClearResetsStyles ==
    (lib = "hack" /\ Len(calls) >= 2 /\ LastCalls(2) = <<"apply", "clear">>)
        => /\ overlays(dom) = {}
           /\ \A n \in DOMAIN dom : dom[n].hwk = ""
           /\ \A n \in DOMAIN rendered :
                  n \in DOMAIN dom /\ dom[n].style = rendered[n].style

\* ========================================================================
\* src/handwritten-katex.js: class HandwrittenKaTeX draws with rough.js
\* directly.  config holds this.options; a run is one call of a
\* createHandDrawn* method with the options objects it passed to rc.line and
\* rc.path, of which the seed is kept: a number Fin(n), None for null,
\* Undefined when the options object has no seed property.
\* ========================================================================
MaxDrawn == 2       \* createHandDrawn* calls followed per instance

\* this.options = { roughness: 1.5, bowing: 1, strokeWidth: 1.2, seed: null, ...options }
HwkOptions(options) ==
    [k \in {"roughness", "bowing", "strokeWidth", "seed"} \cup DOMAIN options |->
        IF k \in DOMAIN options THEN options[k]
        ELSE CASE k = "roughness"   -> Fin(1500)
               [] k = "bowing"      -> Fin(1000)
               [] k = "strokeWidth" -> Fin(1200)
               [] k = "seed"        -> None]

\* the options the page passes to new HandwrittenKaTeX(options)
Seeds == {Fin(0), Fin(1), Fin(42)}
HwkOptionSets ==
    {<<>>} \cup {[seed |-> s] : s \in Seeds} \cup {[seed |-> Fin(7), roughness |-> Fin(2000)]}

\* this.options.seed ? this.options.seed + n : null
seedPlus(o, n) ==
    IF o.seed # None /\ o.seed.v # 0 THEN Fin(o.seed.v + n) ELSE None

rc(shape, seed) == [shape |-> shape, seed |-> seed]

Drawn(fn, type, roughCalls) == [kind |-> fn, input |-> type, calls |-> roughCalls]

HwkInit ==
    /\ lib = "hwk"
    /\ \E options \in HwkOptionSets : config = HwkOptions(options)
    /\ rng = 0
    /\ settings = None
    /\ runs = <<>>
    /\ NoPage

CanCreate == lib = "hwk" /\ Len(runs) < MaxDrawn

CreateHandDrawnLine ==
    /\ CanCreate
    /\ runs' = Append(runs, Drawn("createHandDrawnLine", "", <<rc("line", config.seed)>>))
    /\ UNCHANGED <<lib, config, rng, settings, page>>

CreateHandDrawnSqrt ==
    /\ CanCreate
    /\ runs' = Append(runs, Drawn("createHandDrawnSqrt", "",
                                  <<rc("path", config.seed), rc("line", seedPlus(config, 1))>>))
    /\ UNCHANGED <<lib, config, rng, settings, page>>

ArrowTypes == {"right", "left", "both", "doubleright", "doubleleft"}

CreateHandDrawnArrow(type) ==
    /\ CanCreate
    /\ LET isDouble == type \in {"doubleright", "doubleleft"}
           hasLeft  == type \in {"left", "both", "doubleleft"}
           hasRight == type \in {"right", "both", "doubleright"}
           head     == rc("path", seedPlus(config, 2))
       IN  runs' = Append(runs, Drawn("createHandDrawnArrow", type,
                     (IF isDouble
                      THEN <<rc("line", config.seed), rc("line", seedPlus(config, 1))>>
                      ELSE <<rc("line", config.seed)>>)
                     \o (IF hasRight THEN <<head>> ELSE <<>>)
                     \o (IF hasLeft THEN <<head>> ELSE <<>>)))
    /\ UNCHANGED <<lib, config, rng, settings, page>>

\* the types of the switch; any other type returns null without drawing
DelimiterTypes ==
    {"leftparen", "rightparen", "leftbracket", "rightbracket", "leftbrace", "rightbrace"}

CreateHandDrawnDelimiter(type) ==
    /\ CanCreate
    /\ runs' = Append(runs, Drawn("createHandDrawnDelimiter", type,
                     IF type \in DelimiterTypes THEN <<rc("path", Undefined)>> ELSE <<>>))
    /\ UNCHANGED <<lib, config, rng, settings, page>>

HwkNext ==
    \/ CreateHandDrawnLine
    \/ CreateHandDrawnSqrt
    \/ \E type \in ArrowTypes : CreateHandDrawnArrow(type)
    \/ \E type \in DelimiterTypes \cup {"vert"} : CreateHandDrawnDelimiter(type)

SpecHwk == HwkInit /\ [][HwkNext]_vars

\* C16: setting options.seed gives consistent randomness: with a numeric
\* options.seed, 0 included, every rc.line / rc.path call of
\* createHandDrawnLine, createHandDrawnSqrt, createHandDrawnArrow and
\* createHandDrawnDelimiter receives a number as seed, options.seed plus a
\* fixed offset; the calls receive null or no seed only when options.seed
\* is null.
C16_SeedReachesEveryCall ==
    lib = "hwk" =>
        \A i \in DOMAIN runs : \A c \in DOMAIN runs[i].calls :
            IF config.seed = None
            THEN runs[i].calls[c].seed \in {None, Undefined}
            ELSE /\ runs[i].calls[c].seed \notin {None, Undefined}
                 /\ runs[i].calls[c].seed.v - config.seed.v \in 0 .. 2

\* the options drawRoughShape and drawPoints of v4.0 pass to getStroke for
\* the settings bundle s: `settings.size || g.strokeSize` and so on
strokeOptions(c, s) ==
    [size       |-> IF Truthy(s, "size") THEN s.size ELSE c.global.strokeSize,
     thinning   |-> IF Truthy(s, "thinning") THEN s.thinning ELSE c.global.thinning,
     smoothing  |-> IF Truthy(s, "smoothing") THEN s.smoothing ELSE c.global.smoothing,
     streamline |-> IF Truthy(s, "streamline") THEN s.streamline ELSE c.global.streamline]

\* C17: the global settings of v4.0 are only defaults: a value a category
\* of MASTER_SETTINGS gives for strokeSize, thinning, smoothing or
\* streamline, 0 included, is the value getSettings returns, and the value
\* a settings bundle carries for size, thinning, smoothing or streamline is
\* the one passed to getStroke.
C17_OverridesWin ==
    (lib = "v40" /\ settings # None)
        => /\ settings.category # ""
                => \A f \in {"strokeSize", "thinning", "smoothing", "streamline"} :
                       f \in DOMAIN config[settings.category]
                           => settings[IF f = "strokeSize" THEN "size" ELSE f]
                                  = config[settings.category][f]
           /\ \A f \in {"size", "thinning", "smoothing", "streamline"} :
                  strokeOptions(config, settings)[f] = settings[f]

C19_SizeClampedAtUse ==
    \A i \in DOMAIN runs :
        (lib = "hack" /\ runs[i].kind = "line")
            => InRange(settings.size, <<800, 2000>>)

\* n is max(minSteps, ceil(L / stepDivisor)) for the segment of run and the
\* line settings of the table: the least n >= minSteps with
\* n * stepDivisor >= L, compared in squares of hundredths of a pixel
IsStepCount(n, run) ==
    LET q == config.line.stepDivisor \div 10
        far(m) == (m * q) * (m * q) >= 10000 * Length2(run)
    IN  /\ n >= config.line.minSteps
        /\ far(n)
        /\ n = config.line.minSteps \/ ~far(n - 1)

\* C20, as stated: for a straight segment of length L the number of samples
\* interpolateLine (v3.2, v4.0) returns is exactly
\* max(minSteps, ceil(L / stepDivisor)).
C20_SamplesEqualSteps ==
    \A i \in DOMAIN runs :
        (lib \in {"v32", "v40"} /\ IsFiniteLineRun(runs[i]))
            => IsStepCount(runs[i].samples, runs[i])

\* C20, amended: for a straight segment with finite end points of length L
\* interpolateLine (v3.2, v4.0) returns exactly
\* max(minSteps, ceil(L / stepDivisor)) + 1 samples: that many steps, and
\* both end points.
C20_SamplesEqualStepsPlusOne ==
    \A i \in DOMAIN runs :
        (lib \in {"v32", "v40"} /\ IsFiniteLineRun(runs[i]))
            => IsStepCount(runs[i].samples - 1, runs[i])

\* v4.0 with the default line settings sampled a segment of length 50: 20
\* steps, above the minimum of 15, and 21 samples
C20_Witness ==
    /\ lib = "v40"
    /\ config.line.minSteps = 15 /\ config.line.stepDivisor = 2500
    /\ \E i \in DOMAIN runs :
           /\ IsFiniteLineRun(runs[i])
           /\ Length2(runs[i]) = 2500
           /\ runs[i].samples = 21

\* C21 (Pressure curves as labelled): for every pressureMin and every
\* pressureVar > 0, a stroke handLine sampled with pressureCurve = 1
\* ("heavier at start") has a first sample (t = 0) of greater pressure than its
\* last sample (t = 1), and a stroke sampled with pressureCurve = 2 ("heavier
\* at end") has a last sample of greater pressure than its first.
C21_CurvesAsLabelled ==
    lib = "hack" =>
        \A i \in DOMAIN runs :
            (/\ runs[i].kind = "line" /\ runs[i].ret
             /\ IsFiniteSegment(runs[i].input)
             /\ settings.pressureVar > 0)
                => LET first == Pressure(runs[i].points[1]).v
                       last  == Pressure(runs[i].points[Len(runs[i].points)]).v
                   IN  /\ settings.pressureCurve = 1 => first > last
                       /\ settings.pressureCurve = 2 => last > first

=============================================================================
